---- MODULE Spec2Model ----
(***************************************************************************)
(* A model of posgres-shim: the PostgreSQL wire-protocol intermediary      *)
(* (src/src/lib.rs) with its client-message parser                         *)
(* (src/src/client_message.rs) and server-message encoder                  *)
(* (src/src/server_message.rs).                                            *)
(*                                                                         *)
(* One session is modelled: PostgressIntermediary::run, i.e. init (the     *)
(* handshake) followed by the request loop.  The stream and the shim are   *)
(* observed through `trace`, the sequence of reads, writes, flushes and    *)
(* shim calls the session has performed, in order.                         *)
(***************************************************************************)
EXTENDS Integers, Sequences, FiniteSets, TLC

VARIABLES
    pc,       \* where run() is: EXPECT_STARTUP, EXPECT_PASSWORD, READY,
              \* IN_EXECUTE (inside shim.execute), TERMINATED (Ok(())),
              \* FAILED (Err returned by `?`), ABORTED (panic / abort);
              \* ENCODE / ENCODED where one message is written on its own
    portals,  \* self.portals : HashMap<String, Portal<PortalData>>
    trace,    \* reads / writes / flushes on self.stream and calls of self.shim
    writer,   \* the ResultWriter / RowWriter lent to shim.execute
    steps     \* client messages read by the request loop so far

vars == <<pc, portals, trace, writer, steps>>

----------------------------------------------------------------------------
(* Bounds of the model.                                                    *)

MaxSteps == 3      \* client messages read by the request loop
MaxCodes == 2      \* length of a format-code list in a Bind
MaxParams == 2     \* parameters of a Bind
MaxCols == 2       \* columns a shim returns from describe / start_writing
MaxRows == 1       \* rows written by one execute
MaxText == 2       \* bytes of a string handed to the encoder

----------------------------------------------------------------------------
(* Generic helpers.                                                        *)

SeqsUpTo(S, n) == UNION {[1..k -> S] : k \in 0..n}

Min(a, b) == IF a < b THEN a ELSE b

Range(s) == {s[i] : i \in DOMAIN s}

\* vec![x; n]
Repeat(x, n) == [i \in 1..n |-> x]

\* Iterator::zip: pairs up to the shorter of the two
Zip(s, t) == [i \in 1..Min(Len(s), Len(t)) |-> <<s[i], t[i]>>]

----------------------------------------------------------------------------
(* FormatCode (client_message.rs:52-56) and its wire values.               *)

Text == "Text"
Binary == "Binary"
FormatCode == {Text, Binary}

\* the match arms `Ok(0) => Text, Ok(1) => Binary, _ => panic!`
WireFormatOk(w) == w \in {0, 1}
WireFormat(w) == IF w = 0 THEN Text ELSE Binary

----------------------------------------------------------------------------
(* Events of the trace.                                                    *)

ReadEv(m)  == [ev |-> "read", msg |-> m]
WriteEv(m) == [ev |-> "write", msg |-> m]
FlushEv    == [ev |-> "flush", msg |-> [kind |-> "flush"]]
CallEv(c)  == [ev |-> "call", msg |-> c]
\* the shim uses the writer it was lent
ApiEv(c)   == [ev |-> "api", msg |-> c]
\* shim.execute returns
ReturnEv(r) == [ev |-> "return", msg |-> r]

IsWrite(e) == e.ev = "write"
IsCall(e)  == e.ev = "call"
IsRead(e)  == e.ev = "read"

\* what has been written to the stream, in order
Written(t) == SelectSeq(t, IsWrite)
\* the shim calls made, in order
Calls(t) == SelectSeq(t, IsCall)

----------------------------------------------------------------------------
(* ServerMessage (server_message.rs:8-37).                                 *)

AuthenticationOk == [kind |-> "AuthenticationOk"]
AuthenticationCleartextPassword == [kind |-> "AuthenticationCleartextPassword"]
BackendKeyData(pid, key) ==
    [kind |-> "BackendKeyData", process_id |-> pid, secret_key |-> key]
\* a BindComplete written with the tag of ParseComplete
BindCompleteMistagged == [kind |-> "ParseComplete"]
BindComplete == [kind |-> "BindComplete"]
CommandComplete(rows) == [kind |-> "CommandComplete", rows |-> rows]
DataRow(fields) == [kind |-> "DataRow", fields |-> fields]
ErrorResponse(code, message) ==
    [kind |-> "ErrorResponse", code |-> code, message |-> message]
EmptyQueryResponse == [kind |-> "EmptyQueryResponse"]
NoData == [kind |-> "NoData"]
ParameterStatus(name, value) ==
    [kind |-> "ParameterStatus", name |-> name, value |-> value]
ParseComplete == [kind |-> "ParseComplete"]
ReadyForQuery(status) == [kind |-> "ReadyForQuery", transaction_status |-> status]
RowDescription(fields) == [kind |-> "RowDescription", fields |-> fields]

----------------------------------------------------------------------------
(* The handshake: PostgressIntermediary::init.                             *)

\* DefaultServerParameters as the shim returns it: every field's value is
\* distinct, so a message carrying another field's value is told apart.
DefaultParameterBundles ==
    { [server_version |-> "14.1", server_encoding |-> "UTF8",
       client_encoding |-> "LATIN1", application_name |-> "psql",
       default_transaction_read_only |-> "off", in_hot_standby |-> "no",
       is_superuser |-> "on", session_authorization |-> "alice",
       date_style |-> "ISO, MDY", interval_style |-> "postgres",
       time_zone |-> "UTC", integer_datetimes |-> "yes",
       standard_conforming_strings |-> "true"] }

\* The ParameterStatus messages init writes, in program order: the wire
\* name and the DefaultServerParameters field whose value it carries.
ParameterStatusWrites ==
    << <<"server_version", "server_version">>,
       <<"server_encoding", "server_encoding">>,
       <<"client_encoding", "client_encoding">>,
       <<"application_name", "application_name">>,
       <<"default_transaction_read_only", "default_transaction_read_only">>,
       <<"in_hot_standby", "in_hot_standby">>,
       <<"server_version", "server_version">>,
       <<"is_superuser", "is_superuser">>,
       <<"DateStyle", "date_style">>,
       <<"IntervalStyle", "interval_style">>,
       <<"TimeZone", "time_zone">>,
       <<"integer_datetimes", "integer_datetimes">>,
       <<"standard_conforming_strings", "standard_conforming_strings">> >>

ParameterStatusEvents(dp) ==
    [i \in 1..Len(ParameterStatusWrites) |->
        WriteEv(ParameterStatus(ParameterStatusWrites[i][1],
                                dp[ParameterStatusWrites[i][2]]))]

\* The first byte of the message that follows the StartupMessage.
PasswordHeaders == {"p", "Q"}

\* StartupMessage::from_stream reads any protocol_version
ProtocolVersions == {196608}

\* A StartupMessage frame: the protocol_version and the bytes that follow
\* it (the frame's length is 8 more than their number).
StartupFrame(version, body) ==
    [tag |-> "Startup", protocol_version |-> version, body |-> body]

\* the position of the first 0 of buffer at or after i, 0 when there is none
FirstZero(buffer, i) ==
    LET Z == {j \in i..Len(buffer) : buffer[j] = 0}
    IN IF Z = {} THEN 0 ELSE CHOOSE j \in Z : \A k \in Z : j <= k

\* StartupMessage::from_stream, lines 86-101, from position i of the
\* buffer: the loop ends at a 0 or at the end of the buffer; read_string
\* panics when no 0 follows.  The protocol_version takes no part in it.
RECURSIVE StartupParse(_, _)
StartupParse(buffer, i) ==
    IF i > Len(buffer) \/ buffer[i] = 0 THEN "ok"
    ELSE LET name_end == FirstZero(buffer, i)
             value_end == FirstZero(buffer, name_end + 1)
         IN IF name_end = 0 \/ value_end = 0 THEN "abort"
            ELSE StartupParse(buffer, value_end + 1)

\* the parameters "user" = "a"
UserBody == <<117, 115, 101, 114, 0, 97, 0, 0>>

\* the startup packets of a session
StartupFrames == {StartupFrame(v, UserBody) : v \in ProtocolVersions}

----------------------------------------------------------------------------
(* Values the shim and the client exchange.                                *)

None == [some |-> FALSE]
Some(x) == [some |-> TRUE, val |-> x]

Ok(x) == [ok |-> TRUE, val |-> x]
Err == [ok |-> FALSE]

\* Column (lib.rs:75-79); column_type is the type's OID
Column(name, oid) == [name |-> name, column_type |-> oid]
Columns == {Column("a", 23), Column("b", 25)}

PortalNames == {"", "p1"}
StatementNames == {"s"}
\* PortalData: what shim.bind returns.  The type is opaque to the session
\* (a type parameter without bounds), so the shim of the model hands out a
\* fresh handle at every call: the k-th bind call returns k.
PortalData ==
    1 + Cardinality({i \in DOMAIN trace :
                        trace[i].ev = "call" /\ trace[i].msg.op = "bind"})

\* a portal that forgets the result format codes of its Bind
NewPortalNoCodes(portal_data, result_format_codes) ==
    [portal_data |-> portal_data,
     columns |-> None,
     result_format_codes |-> << >>]

\* Portal::new
NewPortal(portal_data, result_format_codes) ==
    [portal_data |-> portal_data,
     columns |-> None,
     result_format_codes |-> result_format_codes]

\* add_columns that stores nothing
AddColumnsNothing(portal, columns) == portal

\* Portal::add_columns
AddColumns(portal, columns) == [portal EXCEPT !.columns = columns]

\* HashMap::new, insert, remove
NoPortals == [n \in {} |-> NewPortal(0, << >>)]

\* an insert that keeps the entry a key already has (entry().or_insert)
InsertIfAbsent(map, key, value) ==
    [k \in DOMAIN map \cup {key} |-> IF k \in DOMAIN map THEN map[k] ELSE value]

\* a lookup in place of the removal (HashMap::get)
RemoveNothing(map, key) == map

\* a removal that empties the table (HashMap::clear)
RemoveEvery(map, key) == [k \in {} |-> map[k]]

Insert(map, key, value) ==
    [k \in DOMAIN map \cup {key} |-> IF k = key THEN value ELSE map[k]]
Remove(map, key) == [k \in DOMAIN map \ {key} |-> map[k]]

----------------------------------------------------------------------------
(* String::from_utf8_lossy on the byte values the model uses: an ASCII     *)
(* byte is its own character, a two-byte lead 0xC2..0xDF followed by a     *)
(* continuation byte 0x80..0xBF is one character, and any other byte is    *)
(* replaced by U+FFFD.  The model's bytes are below 0xE0 or are 0xFF, so   *)
(* the three- and four-byte forms do not arise.                            *)

ReplacementChar == 65533

RECURSIVE Utf8Lossy(_)
Utf8Lossy(bytes) ==
    IF bytes = << >> THEN << >>
    ELSE LET b == Head(bytes) IN
         IF b < 128 THEN <<b>> \o Utf8Lossy(Tail(bytes))
         ELSE IF /\ b >= 194 /\ b <= 223
                 /\ Len(bytes) >= 2
                 /\ bytes[2] >= 128 /\ bytes[2] <= 191
              THEN <<(b - 192) * 64 + (bytes[2] - 128)>>
                       \o Utf8Lossy(Tail(Tail(bytes)))
              ELSE <<ReplacementChar>> \o Utf8Lossy(Tail(bytes))

\* ParameterValue (lib.rs:235-239)
TextValue(bytes) == [format |-> Text, value |-> Utf8Lossy(bytes)]
BinaryValue(bytes) == [format |-> Binary, value |-> bytes]
ParameterValue(format, bytes) ==
    IF format = Text THEN TextValue(bytes) ELSE BinaryValue(bytes)

\* a conversion that ignores the format codes
BindParametersAllText(parameter_format_codes, parameters) ==
    [i \in 1..Len(parameters) |-> TextValue(parameters[i])]

\* run, lines 273-299: the Bind arm's conversion of the raw parameters
BindParameters(parameter_format_codes, parameters) ==
    IF Len(parameter_format_codes) = 0
    THEN [i \in 1..Len(parameters) |-> TextValue(parameters[i])]
    ELSE IF Len(parameter_format_codes) = 1
    THEN [i \in 1..Len(parameters) |->
             ParameterValue(parameter_format_codes[1], parameters[i])]
    ELSE LET z == Zip(parameters, parameter_format_codes) IN
         [i \in 1..Len(z) |-> ParameterValue(z[i][2], z[i][1])]

----------------------------------------------------------------------------
(* ClientMessage::from_stream, the 'B' arm (client_message.rs:144-186).    *)
(* A Bind frame carries its format codes as the 16-bit wire values and     *)
(* each parameter as its 32-bit size and the bytes that follow it.  The    *)
(* size is held as the signed value of the four wire bytes; read_int32     *)
(* returns them as a u32, so a negative wire value s is read as s + 2^32,  *)
(* which is at least 2^31.                                                 *)

\* the wire's length of a NULL parameter
NullLength == 0 - 1
\* the u32 reading of wire value `size` is above n (n below 2^31)
U32Exceeds(size, n) == size < 0 \/ size > n
\* a size the allocation `vec![0; parameter_size as usize]` may not survive:
\* 2^31 bytes or more (above isize::MAX of a 32-bit build)
HugeAllocation(size) == size < 0

WireParameter(size, data) == [size |-> size, data |-> data]

RECURSIVE FrameBytesFrom(_, _)
\* bytes parameters i.. occupy in the frame
FrameBytesFrom(parameters, i) ==
    IF i > Len(parameters) THEN 0
    ELSE 4 + Len(parameters[i].data) + FrameBytesFrom(parameters, i + 1)

\* bytes left in the cursor once parameter i's size has been read
CursorRemaining(f, i) ==
    Len(f.parameters[i].data) + FrameBytesFrom(f.parameters, i + 1)
        + 2 + 2 * Len(f.result_format_codes)

\* cursor.read_exact(&mut buffer) for parameter i
ReadExactOk(f, i) == ~U32Exceeds(f.parameters[i].size, CursorRemaining(f, i))

\* What parsing the frame can end in: "ok", "err" (an io::Error returned)
\* or "abort" (a panic or an allocation failure).
BindParse(f) ==
    IF \E i \in DOMAIN f.parameter_format_codes :
           ~WireFormatOk(f.parameter_format_codes[i])
    THEN {"abort"}
    ELSE IF \E i \in DOMAIN f.parameters : ~ReadExactOk(f, i)
    THEN LET i == CHOOSE j \in DOMAIN f.parameters :
                      /\ ~ReadExactOk(f, j)
                      /\ \A k \in 1..(j - 1) : ReadExactOk(f, k)
         IN IF HugeAllocation(f.parameters[i].size)
            THEN {"err", "abort"}
            ELSE {"err"}
    ELSE IF \E i \in DOMAIN f.result_format_codes :
                ~WireFormatOk(f.result_format_codes[i])
    THEN {"abort"}
    ELSE {"ok"}

\* The ClientMessage::Bind a well-formed frame parses to.
BindMessage(f) ==
    [portal |-> f.portal,
     name |-> f.name,
     parameter_format_codes |->
         [i \in DOMAIN f.parameter_format_codes |->
             WireFormat(f.parameter_format_codes[i])],
     parameters |-> [i \in DOMAIN f.parameters |-> f.parameters[i].data],
     result_format_codes |->
         [i \in DOMAIN f.result_format_codes |->
             WireFormat(f.result_format_codes[i])]]

BindFrame(portal, name, pfc, params, rfc) ==
    [tag |-> "B", portal |-> portal, name |-> name,
     parameter_format_codes |-> pfc, parameters |-> params,
     result_format_codes |-> rfc]

----------------------------------------------------------------------------
(* Result-format negotiation (lib.rs:117-142).                             *)

\* format_codes without the repetition of a single code
FormatCodesNoRepeat(columns, result_format_codes) ==
    IF Len(result_format_codes) = 0 THEN Repeat(Text, Len(columns))
    ELSE result_format_codes

\* format_codes: the per-column codes; panics when the lengths differ
FormatCodesRaw(columns, result_format_codes) ==
    IF Len(result_format_codes) = 0 THEN Repeat(Text, Len(columns))
    ELSE IF Len(result_format_codes) = 1
    THEN Repeat(result_format_codes[1], Len(columns))
    ELSE result_format_codes

FormatCodesPanics(columns, result_format_codes) ==
    Len(FormatCodesRaw(columns, result_format_codes)) # Len(columns)

\* row_description
RowDescriptionOf(columns, format_codes) ==
    LET z == Zip(columns, format_codes) IN
    RowDescription([i \in 1..Len(z) |->
        [name |-> z[i][1].name, column_type |-> z[i][1].column_type,
         format |-> z[i][2]]])

----------------------------------------------------------------------------
(* ServerMessage::write (server_message.rs:44-160): the bytes a message    *)
(* puts on the stream.  A string is given by its bytes (str::as_bytes), a  *)
(* u8 by its value, a Type by its OID.                                     *)

\* i32::to_be_bytes, the negative values in two's complement
Int32(n) ==
    LET hi == IF n < 0 THEN 128 + ((n + 2147483647 + 1) \div 16777216)
                       ELSE n \div 16777216
    IN << hi, (n \div 65536) % 256, (n \div 256) % 256, n % 256 >>

\* u16::to_be_bytes of `n as u16`
Int16(n) == << (n \div 256) % 256, n % 256 >>

\* format!("{}", rows)
RECURSIVE Decimal(_)
Decimal(n) ==
    IF n < 10 THEN << 48 + n >>
    ELSE Decimal(n \div 10) \o << 48 + (n % 10) >>

\* the closure of lines 100-113: one field of a RowDescription
FieldBytes(field) ==
    field.name \o <<0>> \o Int32(0) \o Int16(0)
        \o Int32(field.column_type) \o Int16(0) \o Int32(0)
        \o Int16(IF field.format = Text THEN 0 ELSE 1)

\* lines 98-114: the fields of a RowDescription, one after the other
RECURSIVE FieldsBytes(_)
FieldsBytes(fields) ==
    IF fields = << >> THEN << >>
    ELSE FieldBytes(Head(fields)) \o FieldsBytes(Tail(fields))

\* a DataRow slot whose NULL is written as a length of 0
SlotBytesNullAsEmpty(field) ==
    IF field.some THEN Int32(Len(field.val)) \o field.val ELSE Int32(0)

\* lines 123-131: one slot of a DataRow
SlotBytes(field) ==
    IF field.some THEN Int32(Len(field.val)) \o field.val ELSE Int32(0 - 1)

\* lines 123-131: the slots of a DataRow, one after the other
RECURSIVE SlotsBytes(_)
SlotsBytes(fields) ==
    IF fields = << >> THEN << >>
    ELSE SlotBytes(Head(fields)) \o SlotsBytes(Tail(fields))

\* a length that leaves out the length field itself
FramedWithoutLengthField(tag, buffer) == <<tag>> \o Int32(Len(buffer)) \o buffer

\* lines 115-117, 132-134, 145-147: the tag was written, then the length
\* of the buffer plus 4, then the buffer
Framed(tag, buffer) == <<tag>> \o Int32(Len(buffer) + 4) \o buffer

\* ServerMessage::write
Encode(m) ==
    CASE m.kind = "AuthenticationOk" -> <<82>> \o Int32(8) \o Int32(0)
      [] m.kind = "BackendKeyData" ->
            <<75>> \o Int32(12) \o Int32(m.process_id) \o Int32(m.secret_key)
      [] m.kind = "ReadyForQuery" ->
            <<90>> \o Int32(5) \o <<m.transaction_status>>
      [] m.kind = "AuthenticationCleartextPassword" ->
            <<82>> \o Int32(8) \o Int32(3)
      [] m.kind = "ParameterStatus" ->
            <<83>> \o Int32(4 + Len(m.name) + 1 + Len(m.value) + 1)
                 \o m.name \o <<0>> \o m.value \o <<0>>
      [] m.kind = "ParseComplete" -> <<49>> \o Int32(4)
      [] m.kind = "BindComplete" -> <<50>> \o Int32(4)
      [] m.kind = "ErrorResponse" ->
            <<69>> \o Int32(Len(m.message) + 4 + 1 + 1)
                 \o <<m.code>> \o m.message \o <<0>>
      [] m.kind = "RowDescription" ->
            Framed(84, Int16(Len(m.fields)) \o FieldsBytes(m.fields))
      [] m.kind = "DataRow" ->
            Framed(68, Int16(Len(m.fields)) \o SlotsBytes(m.fields))
      [] m.kind = "CommandComplete" ->
            Framed(67, <<83, 69, 76, 69, 67, 84, 32>> \o Decimal(m.rows) \o <<0>>)
      [] m.kind = "NoData" -> <<110>> \o Int32(4)
      [] m.kind = "EmptyQueryResponse" -> <<73>> \o Int32(4)

----------------------------------------------------------------------------
(* The session: construction and init (lib.rs:242-248, 361-448).          *)

Init ==
    /\ pc = "EXPECT_STARTUP"
    /\ portals = NoPortals
    /\ trace = << >>
    /\ writer = [kind |-> "none"]
    /\ steps = 0

\* init, lines 366-368: read the StartupMessage, write
\* AuthenticationCleartextPassword, flush.
ReadStartup(f) ==
    /\ pc = "EXPECT_STARTUP"
    /\ IF StartupParse(f.body, 1) = "abort"
       THEN /\ trace' = trace \o << ReadEv(f) >>
            /\ pc' = "ABORTED"
       ELSE /\ trace' = trace \o << ReadEv(f),
                                    WriteEv(AuthenticationCleartextPassword),
                                    FlushEv >>
            /\ pc' = "EXPECT_PASSWORD"
    /\ UNCHANGED <<portals, writer, steps>>

\* Authenticated with ReadyForQuery written ahead of BackendKeyData
AuthenticatedReadyFirst(dp) ==
    << WriteEv(AuthenticationOk),
       CallEv([op |-> "default_parameters", result |-> dp]) >>
        \o ParameterStatusEvents(dp)
        \o << WriteEv(ReadyForQuery("I")),
              WriteEv(BackendKeyData(0, 0)),
              FlushEv >>

\* init, lines 370-446: what follows the PasswordMessage
Authenticated(dp) ==
    << WriteEv(AuthenticationOk),
       CallEv([op |-> "default_parameters", result |-> dp]) >>
        \o ParameterStatusEvents(dp)
        \o << WriteEv(BackendKeyData(0, 0)),
              WriteEv(ReadyForQuery("I")),
              FlushEv >>

\* init, lines 369-447: read the PasswordMessage (panic unless its header
\* is 'p'), then AuthenticationOk, the ParameterStatus messages,
\* BackendKeyData, ReadyForQuery, flush.
ReadPassword(header, dp) ==
    /\ pc = "EXPECT_PASSWORD"
    /\ IF header # "p"
       THEN /\ pc' = "ABORTED"
            /\ trace' = trace \o <<ReadEv([tag |-> header])>>
       ELSE /\ pc' = "READY"
            /\ trace' = trace \o <<ReadEv([tag |-> "p"])>> \o Authenticated(dp)
    /\ UNCHANGED <<portals, writer, steps>>

----------------------------------------------------------------------------
(* The request loop of run (lib.rs:256-358).                               *)

CanRead == pc = "READY" /\ steps < MaxSteps

\* One pass of the loop: the events it adds and where run is afterwards.
LoopStep(events, next) ==
    /\ trace' = trace \o events
    /\ pc' = next
    /\ steps' = steps + 1

\* a pass that ends without the flush
Unflushed(events) == LoopStep(events, "READY")

\* the flush that ends every pass but Terminate's (line 357)
Flushed(events) == LoopStep(events \o <<FlushEv>>, "READY")

\* Type::from_oid(..).unwrap() in the 'P' arm
KnownOids == {23, 25}

\* Parse arm, lines 258-265
Parse(f, res) ==
    /\ CanRead
    /\ IF \E i \in DOMAIN f.parameters_types : f.parameters_types[i] \notin KnownOids
       THEN LoopStep(<<ReadEv(f)>>, "ABORTED")
       ELSE LET call == CallEv([op |-> "prepare", name |-> f.name,
                                query |-> f.query,
                                parameter_types |-> f.parameters_types,
                                result |-> res])
            IN IF res.ok
               THEN Flushed(<<ReadEv(f), call, WriteEv(ParseComplete)>>)
               ELSE LoopStep(<<ReadEv(f), call>>, "FAILED")
    /\ UNCHANGED <<portals, writer>>

\* Bind arm, lines 266-305
Bind(f, outcome, res) ==
    /\ CanRead
    /\ outcome \in BindParse(f)
    /\ IF outcome = "abort"
       THEN LoopStep(<<ReadEv(f)>>, "ABORTED") /\ UNCHANGED portals
       ELSE IF outcome = "err"
       THEN LoopStep(<<ReadEv(f)>>, "FAILED") /\ UNCHANGED portals
       ELSE LET m == BindMessage(f)
                call == CallEv([op |-> "bind", name |-> m.name,
                                parameters |-> BindParameters(
                                    m.parameter_format_codes, m.parameters),
                                result |-> res])
            IN IF res.ok
               THEN /\ portals' = Insert(portals, m.portal,
                                     NewPortal(res.val, m.result_format_codes))
                    /\ Flushed(<<ReadEv(f), call, WriteEv(BindComplete)>>)
               ELSE /\ LoopStep(<<ReadEv(f), call>>, "FAILED")
                    /\ UNCHANGED portals
    /\ UNCHANGED writer

\* the ErrorResponse with another code
PortalNotFoundOtherCode == ErrorResponse("E", "Portal not found")

\* the ErrorResponse of lines 318-321
PortalNotFound == ErrorResponse("S", "Portal not found")

\* Execute arm, lines 306-324.  With the portal found, shim.execute is
\* entered holding ResultWriter::new(format_codes, &mut self.stream).
Execute(f) ==
    /\ CanRead
    /\ portals' = Remove(portals, f.portal)
    /\ IF f.portal \in DOMAIN portals
       THEN LET portal == portals[f.portal] IN
            /\ LoopStep(<<ReadEv(f),
                          CallEv([op |-> "execute",
                                  portal |-> portal.portal_data,
                                  max_rows |-> f.max_rows,
                                  columns |-> portal.columns,
                                  result_format_codes |->
                                      portal.result_format_codes])>>,
                        "IN_EXECUTE")
            /\ writer' = [kind |-> "ResultWriter",
                          result_format_codes |-> portal.result_format_codes]
       ELSE /\ Flushed(<<ReadEv(f),
                         WriteEv(PortalNotFound)>>)
            /\ UNCHANGED writer

\* ResultWriter::start_writing, lines 89-106
StartWriting(columns) ==
    /\ pc = "IN_EXECUTE"
    /\ writer.kind = "ResultWriter"
    /\ IF FormatCodesPanics(columns, writer.result_format_codes)
       THEN /\ pc' = "ABORTED"
            /\ writer' = [kind |-> "none"]
       ELSE /\ pc' = pc
            /\ writer' = [kind |-> "RowWriter",
                          result_format_codes |->
                              FormatCodesRaw(columns, writer.result_format_codes),
                          types |-> [i \in DOMAIN columns |-> columns[i].column_type],
                          row_count |-> 0]
    /\ trace' = Append(trace, ApiEv([op |-> "start_writing", columns |-> columns]))
    /\ UNCHANGED <<portals, steps>>

\* an empty_result that also completes the command
EmptyResultThenComplete ==
    /\ pc = "IN_EXECUTE"
    /\ writer.kind = "ResultWriter"
    /\ trace' = trace \o << WriteEv(EmptyQueryResponse),
                             WriteEv(CommandComplete(0)) >>
    /\ writer' = [kind |-> "none"]
    /\ UNCHANGED <<pc, portals, steps>>

\* ResultWriter::empty_result, lines 108-114
EmptyResult ==
    /\ pc = "IN_EXECUTE"
    /\ writer.kind = "ResultWriter"
    /\ trace' = Append(trace, WriteEv(EmptyQueryResponse))
    /\ writer' = [kind |-> "none"]
    /\ UNCHANGED <<pc, portals, steps>>

\* A value handed to write_row, seen through the two traits the blanket
\* impl of ToSqlValue uses (lib.rs:195-198): what ToSql::to_sql returns,
\* Ok(None) for IsNull::Yes, Ok(Some(buffer)) for IsNull::No or Err, and
\* the bytes of what Display gives.
SqlValue(to_sql, to_string) == [to_sql |-> to_sql, to_string |-> to_string]

\* the bytes of "NULL"
NullText == <<78, 85, 76, 76>>

\* as_bin_value, lines 199-206
AsBinPanics(sql_value) == ~sql_value.to_sql.ok
AsBinValue(sql_value) == sql_value.to_sql.val

\* as_str_value, lines 208-214
AsStrValue(sql_value) ==
    IF sql_value.to_string = NullText THEN None ELSE Some(sql_value.to_string)

\* the closure of write_row, lines 166-169: one value in its column's format
FieldOf(sql_value, format_code) ==
    IF format_code = Binary THEN AsBinValue(sql_value)
                            ELSE AsStrValue(sql_value)

\* a value of the row makes as_bin_value panic
RowPanics(rows, result_format_codes, types) ==
    LET z == Zip(Zip(rows, result_format_codes), types) IN
    \E i \in 1..Len(z) : z[i][1][2] = Binary /\ AsBinPanics(z[i][1][1])

\* a field for every value of the row, the values beyond the columns as text
RowFieldsOfEveryValue(rows, result_format_codes, types) ==
    [i \in 1..Len(rows) |->
        FieldOf(rows[i], IF i <= Len(result_format_codes)
                         THEN result_format_codes[i] ELSE Text)]

\* the fields write_row collects, lines 162-170
RowFields(rows, result_format_codes, types) ==
    LET z == Zip(Zip(rows, result_format_codes), types) IN
    [i \in 1..Len(z) |-> FieldOf(z[i][1][1], z[i][1][2])]

\* RowWriter::write_row, lines 157-174
WriteRow(rows) ==
    /\ pc = "IN_EXECUTE"
    /\ writer.kind = "RowWriter"
    /\ writer.row_count < MaxRows
    /\ IF RowPanics(rows, writer.result_format_codes, writer.types)
       THEN /\ trace' = Append(trace, ApiEv([op |-> "write_row", rows |-> rows]))
            /\ writer' = [kind |-> "none"]
            /\ pc' = "ABORTED"
       ELSE /\ trace' = trace \o
                  << ApiEv([op |-> "write_row", rows |-> rows]),
                     WriteEv(DataRow(RowFields(rows, writer.result_format_codes,
                                               writer.types))) >>
            /\ writer' = [writer EXCEPT !.row_count = @ + 1]
            /\ pc' = pc
    /\ UNCHANGED <<portals, steps>>

\* a finish that reports no rows
FinishReportsNoRows ==
    /\ pc = "IN_EXECUTE"
    /\ writer.kind = "RowWriter"
    /\ trace' = Append(trace, WriteEv(CommandComplete(0)))
    /\ writer' = [kind |-> "none"]
    /\ UNCHANGED <<pc, portals, steps>>

\* RowWriter::finish / complete_result, lines 176-187
Finish ==
    /\ pc = "IN_EXECUTE"
    /\ writer.kind = "RowWriter"
    /\ trace' = Append(trace, WriteEv(CommandComplete(writer.row_count)))
    /\ writer' = [kind |-> "none"]
    /\ UNCHANGED <<pc, portals, steps>>

\* a return of shim.execute whose failure is passed over
ExecuteReturnIgnoresFailure(res) ==
    /\ pc = "IN_EXECUTE"
    /\ trace' = trace \o <<ReturnEv(res), FlushEv>>
    /\ pc' = "READY"
    /\ writer' = [kind |-> "none"]
    /\ UNCHANGED <<portals, steps>>

\* shim.execute returns (line 315: `?`), then the flush of line 357
ExecuteReturn(res) ==
    /\ pc = "IN_EXECUTE"
    /\ IF res.ok
       THEN /\ trace' = trace \o <<ReturnEv(res), FlushEv>>
            /\ pc' = "READY"
       ELSE /\ trace' = Append(trace, ReturnEv(res))
            /\ pc' = "FAILED"
    /\ writer' = [kind |-> "none"]
    /\ UNCHANGED <<portals, steps>>

\* a Describe answered the way Execute answers a missing portal
DescribeAnswersMissing(f, res) ==
    /\ CanRead
    /\ Flushed(<<ReadEv(f), WriteEv(PortalNotFound)>>)
    /\ UNCHANGED <<portals, writer>>

\* Describe arm, lines 328-346, with the 'D' arm of from_stream
\* (client_message.rs:197-208)
Describe(f, res) ==
    /\ CanRead
    /\ IF f.kind \notin {"S", "P"}
       THEN LoopStep(<<ReadEv(f)>>, "ABORTED") /\ UNCHANGED portals
       ELSE IF f.kind = "S"
       THEN LoopStep(<<ReadEv(f)>>, "ABORTED") /\ UNCHANGED portals
       ELSE IF f.name \notin DOMAIN portals
       THEN LoopStep(<<ReadEv(f)>>, "ABORTED") /\ UNCHANGED portals
       ELSE LET portal == portals[f.name]
                call == CallEv([op |-> "describe",
                                portal |-> portal.portal_data,
                                result |-> res])
            IN IF ~res.ok
               THEN LoopStep(<<ReadEv(f), call>>, "FAILED") /\ UNCHANGED portals
               ELSE IF ~res.val.some
               THEN Flushed(<<ReadEv(f), call, WriteEv(NoData)>>)
                    /\ UNCHANGED portals
               ELSE LET columns == res.val.val IN
                    IF FormatCodesPanics(columns, portal.result_format_codes)
                    THEN LoopStep(<<ReadEv(f), call>>, "ABORTED")
                         /\ UNCHANGED portals
                    ELSE /\ Flushed(<<ReadEv(f), call,
                              WriteEv(RowDescriptionOf(columns,
                                  FormatCodesRaw(columns,
                                      portal.result_format_codes)))>>)
                         /\ portals' = [portals EXCEPT ![f.name] =
                                           AddColumns(@, Some(columns))]
    /\ UNCHANGED writer

\* a Sync that is flushed without an answer
SyncSilent(f) ==
    /\ CanRead
    /\ Flushed(<<ReadEv(f)>>)
    /\ UNCHANGED <<portals, writer>>

\* Sync arm, lines 347-352
Sync(f) ==
    /\ CanRead
    /\ Flushed(<<ReadEv(f), WriteEv(ReadyForQuery("I"))>>)
    /\ UNCHANGED <<portals, writer>>

\* Query arm, lines 325-327: the query goes to stdout, not to the stream
Query(f) ==
    /\ CanRead
    /\ Flushed(<<ReadEv(f)>>)
    /\ UNCHANGED <<portals, writer>>

\* a Terminate that is read and passed over
TerminateIgnored(f) ==
    /\ CanRead
    /\ LoopStep(<<ReadEv(f)>>, "READY")
    /\ UNCHANGED <<portals, writer>>

\* Terminate arm, lines 353-355
Terminate(f) ==
    /\ CanRead
    /\ LoopStep(<<ReadEv(f)>>, "TERMINATED")
    /\ UNCHANGED <<portals, writer>>

\* an unknown message that is skipped
UnknownTagSkipped(f) ==
    /\ CanRead
    /\ Flushed(<<ReadEv(f)>>)
    /\ UNCHANGED <<portals, writer>>

\* from_stream's last arm (client_message.rs:217)
UnknownTag(f) ==
    /\ CanRead
    /\ LoopStep(<<ReadEv(f)>>, "ABORTED")
    /\ UNCHANGED <<portals, writer>>

\* read_exact fails where a message is awaited (the peer closed the
\* stream): `?` returns the io::Error
StreamClosed ==
    /\ pc \in {"EXPECT_STARTUP", "EXPECT_PASSWORD", "READY"}
    /\ pc' = "FAILED"
    /\ UNCHANGED <<portals, trace, writer, steps>>

----------------------------------------------------------------------------
(* The inputs of a session.                                                *)

ParseFrames ==
    {[tag |-> "P", name |-> n, query |-> "SELECT 1", parameters_types |-> t] :
        n \in StatementNames, t \in {<<23>>, <<0>>}}
PrepareResults == {Ok("unit"), Err}

\* result format codes as the client sends them
\* result format codes as the client sends them (2 is not a format)
SessionResultCodes == {<< >>, <<1>>, <<0, 1>>, <<2>>}
SessionBinds ==
    {BindFrame(p, n, << >>, << >>, r) :
        p \in PortalNames, n \in StatementNames, r \in SessionResultCodes}
BindResults == {Ok(PortalData), Err}

\* each portal name is executed with a row limit of its own
ExecuteFrames ==
    {[tag |-> "E", portal |-> "", max_rows |-> 0],
     [tag |-> "E", portal |-> "p1", max_rows |-> 7]}
ExecuteResults == {Ok("unit"), Err}

DescribeFrames ==
    {[tag |-> "D", kind |-> "P", name |-> p] : p \in PortalNames}
        \cup {[tag |-> "D", kind |-> k, name |-> ""] : k \in {"S", "X"}}
SessionColumns == {<<Column("a", 23)>>, <<Column("a", 23), Column("b", 25)>>}
DescribeResults == {Err, Ok(None)} \cup {Ok(Some(c)) : c \in SessionColumns}

\* values a shim hands to write_row: the integer 1, and a value that is
\* SQL NULL to ToSql and prints as "NULL"
SqlOne == SqlValue(Ok(Some(<<0, 0, 0, 1>>)), <<49>>)
SqlNull == SqlValue(Ok(None), NullText)
SessionRows == {<<SqlOne, SqlNull>>}

SyncFrames == {[tag |-> "S"]}
QueryFrames == {[tag |-> "Q", query |-> "SELECT 1"]}
TerminateFrames == {[tag |-> "X"]}
UnknownFrames == {[tag |-> "C"]}

Next ==
    \/ \E f \in StartupFrames : ReadStartup(f)
    \/ \E h \in PasswordHeaders, dp \in DefaultParameterBundles : ReadPassword(h, dp)
    \/ \E f \in ParseFrames, res \in PrepareResults : Parse(f, res)
    \/ \E f \in SessionBinds, res \in BindResults :
          \E o \in BindParse(f) : Bind(f, o, res)
    \/ \E f \in DescribeFrames, res \in DescribeResults : Describe(f, res)
    \/ \E f \in ExecuteFrames : Execute(f)
    \/ \E c \in SessionColumns : StartWriting(c)
    \/ EmptyResult
    \/ \E r \in SessionRows : WriteRow(r)
    \/ Finish
    \/ \E res \in ExecuteResults : ExecuteReturn(res)
    \/ \E f \in SyncFrames : Sync(f)
    \/ \E f \in QueryFrames : Query(f)
    \/ \E f \in TerminateFrames : Terminate(f)
    \/ \E f \in UnknownFrames : UnknownTag(f)
    \/ StreamClosed

Spec == Init /\ [][Next]_vars

----------------------------------------------------------------------------
(* Sessions whose first request is a Bind, over every Bind frame within    *)
(* the bounds: any list of wire format codes (2 is not a format) and any   *)
(* list of parameters, a parameter being bytes or the wire's NULL.         *)

FirstRequest == steps = 0

BindFirst(f, outcome, res) == FirstRequest /\ Bind(f, outcome, res)

ParameterData == {<< >>, <<65>>, <<255>>, <<195, 169>>}
WireParameters ==
    {WireParameter(Len(d), d) : d \in ParameterData}
        \cup {WireParameter(NullLength, << >>)}
WireCodes == {0, 1, 2}

AnyBinds ==
    {BindFrame("", "s", c, p, << >>) :
        c \in SeqsUpTo(WireCodes, MaxCodes),
        p \in SeqsUpTo(WireParameters, MaxParams)}

\* the first pass of the loop reads any one of the Bind frames
BindAny ==
    /\ FirstRequest
    /\ CanRead
    /\ \E f \in AnyBinds, res \in BindResults :
          \E o \in BindParse(f) : BindFirst(f, o, res)

NextBind ==
    \/ \E f \in StartupFrames : ReadStartup(f)
    \/ \E h \in PasswordHeaders, dp \in DefaultParameterBundles : ReadPassword(h, dp)
    \/ BindAny

SpecBind == Init /\ [][NextBind]_vars

----------------------------------------------------------------------------
(* Sessions that bind one portal with any list of result format codes      *)
(* within the bounds and then describe and execute it, the shim answering  *)
(* with any column list within the bounds.                                 *)

AnyResultCodes == SeqsUpTo({0, 1}, MaxCodes)
AnyColumns == SeqsUpTo(Columns, MaxCols)

NextNegotiate ==
    \/ \E f \in StartupFrames : ReadStartup(f)
    \/ \E dp \in DefaultParameterBundles : ReadPassword("p", dp)
    \/ \E r \in AnyResultCodes :
          BindFirst(BindFrame("", "s", << >>, << >>, r), "ok", Ok(PortalData))
    \/ \E c \in AnyColumns :
          Describe([tag |-> "D", kind |-> "P", name |-> ""], Ok(Some(c)))
    \/ Execute([tag |-> "E", portal |-> "", max_rows |-> 0])
    \/ \E c \in AnyColumns : StartWriting(c)
    \/ ExecuteReturn(Ok("unit"))

SpecNegotiate == Init /\ [][NextNegotiate]_vars

----------------------------------------------------------------------------
(* Sessions opened by any startup packet: a StartupMessage of protocol     *)
(* 3.0, an SSLRequest (code 80877103, nothing after it), a CancelRequest   *)
(* (code 80877102, then the process id and the secret key), or a           *)
(* StartupMessage whose parameter list lacks its terminators.              *)

AnyStartupFrames ==
    {StartupFrame(196608, UserBody),
     StartupFrame(196608, <<117>>),
     StartupFrame(80877103, << >>),
     StartupFrame(80877102, <<0, 0, 0, 0, 0, 0, 0, 0>>),
     StartupFrame(80877102, <<1, 2, 3, 4, 5, 6, 7, 8>>)}

NextStartup ==
    \/ \E f \in AnyStartupFrames : ReadStartup(f)
    \/ \E h \in PasswordHeaders, dp \in DefaultParameterBundles : ReadPassword(h, dp)
    \/ \E f \in ParseFrames, res \in PrepareResults : Parse(f, res)
    \/ \E f \in SyncFrames : Sync(f)
    \/ \E f \in QueryFrames : Query(f)
    \/ \E f \in TerminateFrames : Terminate(f)
    \/ \E f \in UnknownFrames : UnknownTag(f)
    \/ StreamClosed

SpecStartup == Init /\ [][NextStartup]_vars

----------------------------------------------------------------------------
(* Sessions that bind and execute one portal, the shim starting a row      *)
(* writer on any column list within the bounds and writing one row of any  *)
(* values: the integer 1, a value that is NULL to ToSql and prints as      *)
(* "NULL", the string "NULL", the empty string, and a value ToSql cannot   *)
(* convert.                                                                *)

SqlNullText == SqlValue(Ok(Some(NullText)), NullText)
SqlEmpty == SqlValue(Ok(Some(<< >>)), << >>)
SqlUnconvertible == SqlValue(Err, <<49>>)

AnyValues == {SqlOne, SqlNull, SqlNullText, SqlEmpty, SqlUnconvertible}
AnyRows == SeqsUpTo(AnyValues, MaxCols)

\* the first write_row on a writer
WriteFirstRow(rows) ==
    /\ writer.kind = "RowWriter"
    /\ writer.row_count = 0
    /\ WriteRow(rows)

NextRows ==
    \/ \E f \in StartupFrames : ReadStartup(f)
    \/ \E dp \in DefaultParameterBundles : ReadPassword("p", dp)
    \/ \E r \in {<< >>, <<1>>, <<0, 1>>} :
          BindFirst(BindFrame("", "s", << >>, << >>, r), "ok", Ok(PortalData))
    \/ Execute([tag |-> "E", portal |-> "", max_rows |-> 0])
    \/ \E c \in AnyColumns : StartWriting(c)
    \/ \E r \in AnyRows : WriteFirstRow(r)
    \/ Finish
    \/ ExecuteReturn(Ok("unit"))

SpecRows == Init /\ [][NextRows]_vars

----------------------------------------------------------------------------
(* Sessions whose messages are read with their length field: the four      *)
(* bytes after the tag, as read_int32 returns them.  A Sync or a Terminate *)
(* is the tag and the length, whatever the length says; of the other       *)
(* messages only those whose length is below 4, and one well-formed        *)
(* Query, are read here.                                                   *)

AnyLengths == {0, 3, 4, 8}

\* `lenght as usize - 4` has no value in usize
LengthUnderflows(f) == f.length < 4

\* from_stream's 'Q', 'P', 'B', 'E' and 'D' arms on a length below 4
\* (client_message.rs:118-119, 126-127, 145-146, 188-189, 198-200): the
\* subtraction panics where overflow is checked, and where it wraps the
\* allocation of more than isize::MAX bytes panics
ShortLength(f) ==
    /\ CanRead
    /\ LengthUnderflows(f)
    /\ LoopStep(<<ReadEv(f)>>, "ABORTED")
    /\ UNCHANGED <<portals, writer>>

ShortFrames ==
    {[tag |-> t, length |-> l] : t \in {"Q", "P", "B", "E", "D"}, l \in {0, 3}}
SyncLengthFrames == {[tag |-> "S", length |-> l] : l \in AnyLengths}
TerminateLengthFrames == {[tag |-> "X", length |-> l] : l \in AnyLengths}
QueryLengthFrames == {[tag |-> "Q", length |-> 13, query |-> "SELECT 1"]}

NextLengths ==
    \/ \E f \in StartupFrames : ReadStartup(f)
    \/ \E dp \in DefaultParameterBundles : ReadPassword("p", dp)
    \/ \E f \in SyncLengthFrames : Sync(f)
    \/ \E f \in TerminateLengthFrames : Terminate(f)
    \/ \E f \in QueryLengthFrames : Query(f)
    \/ \E f \in ShortFrames : ShortLength(f)

SpecLengths == Init /\ [][NextLengths]_vars

----------------------------------------------------------------------------
(* ServerMessage::write on its own: a message of any kind, with any field  *)
(* contents within the bounds, is written to an empty stream.  `writer`    *)
(* holds the message, `trace` receives the write and the bytes it put on   *)
(* the stream, and pc goes from ENCODE to ENCODED.                         *)

\* strings by their bytes: NUL, an ASCII letter, a lead byte
AnyText == SeqsUpTo({0, 65, 195}, MaxText)

AnyFields ==
    {[name |-> n, column_type |-> t, format |-> c] :
        n \in {<< >>, <<97>>}, t \in KnownOids, c \in FormatCode}

AnySlots == {None, Some(<< >>), Some(<<49>>), Some(<<0, 0, 0, 1>>)}

AnyMessages ==
    {AuthenticationOk, AuthenticationCleartextPassword, BindComplete,
     EmptyQueryResponse, NoData, ParseComplete}
    \cup {BackendKeyData(p, k) : p \in {0, 1, 0 - 1}, k \in {0, 1, 0 - 1}}
    \cup {CommandComplete(n) : n \in {0, 7, 10, 123, 2147483647}}
    \cup {DataRow(f) : f \in SeqsUpTo(AnySlots, MaxCols)}
    \cup {ErrorResponse(c, m) : c \in {0, 83}, m \in AnyText}
    \cup {ParameterStatus(n, v) : n \in AnyText, v \in AnyText}
    \cup {ReadyForQuery(t) : t \in {73, 84}}
    \cup {RowDescription(f) : f \in SeqsUpTo(AnyFields, MaxCols)}

InitEncode ==
    /\ pc = "ENCODE"
    /\ portals = NoPortals
    /\ trace = << >>
    /\ writer \in {[kind |-> "message", msg |-> m] : m \in AnyMessages}
    /\ steps = 0

\* message.write(&mut stream)
WriteMessage ==
    /\ pc = "ENCODE"
    /\ trace' = << WriteEv(writer.msg),
                   [ev |-> "bytes", msg |-> Encode(writer.msg)] >>
    /\ pc' = "ENCODED"
    /\ UNCHANGED <<portals, writer, steps>>

NextEncode == WriteMessage

SpecEncode == InitEncode /\ [][NextEncode]_vars

----------------------------------------------------------------------------
(* Reading the trace.                                                      *)

IsMsg(e, kind) == e.ev = "write" /\ e.msg.kind = kind
IsReadTag(e, tag) == e.ev = "read" /\ e.msg.tag = tag
IsCallOp(e, op) == e.ev = "call" /\ e.msg.op = op

RequestTags == {"P", "B", "D", "E", "S"}
RequestOps == {"prepare", "bind", "describe", "execute"}

\* a request message read by the loop, or a call of the shim for one
IsRequest(e) ==
    \/ e.ev = "read" /\ e.msg.tag \in RequestTags
    \/ e.ev = "call" /\ e.msg.op \in RequestOps

\* position of the first ReadyForQuery written, 0 when there is none
FirstReady ==
    LET R == {i \in DOMAIN trace : IsMsg(trace[i], "ReadyForQuery")}
    IN IF R = {} THEN 0 ELSE CHOOSE i \in R : \A j \in R : i <= j

\* the events the step from the current state to the next adds
Added == SubSeq(trace', Len(trace) + 1, Len(trace'))

----------------------------------------------------------------------------
(* C1: the handshake output is ordered.  AuthenticationCleartextPassword   *)
(* is written, and flushed, only after the StartupMessage was read;        *)
(* AuthenticationOk only after a PasswordMessage was read; what is written *)
(* up to the first ReadyForQuery is AuthenticationCleartextPassword,       *)
(* AuthenticationOk, ParameterStatus messages, BackendKeyData,             *)
(* ReadyForQuery('I'), and a flush follows it; no request message is read  *)
(* and no prepare / bind / describe / execute call is made before it.      *)
C1_HandshakeOrder ==
    LET z == FirstReady
        W == Written(SubSeq(trace, 1, z))
        n == Len(W)
    IN
    /\ \A i \in DOMAIN trace :
        /\ IsMsg(trace[i], "AuthenticationCleartextPassword") =>
              /\ \E j \in 1..(i - 1) : IsReadTag(trace[j], "Startup")
              /\ i < Len(trace) /\ trace[i + 1].ev = "flush"
        /\ IsMsg(trace[i], "AuthenticationOk") =>
              \E j \in 1..(i - 1) : IsReadTag(trace[j], "p")
        /\ IsRequest(trace[i]) => (z > 0 /\ z < i)
    /\ z > 0 =>
        /\ n >= 4
        /\ W[1].msg.kind = "AuthenticationCleartextPassword"
        /\ W[2].msg.kind = "AuthenticationOk"
        /\ \A k \in 3..(n - 2) : W[k].msg.kind = "ParameterStatus"
        /\ W[n - 1].msg.kind = "BackendKeyData"
        /\ W[n].msg = ReadyForQuery("I")
        /\ z < Len(trace) /\ trace[z + 1].ev = "flush"
    /\ pc \in {"READY", "IN_EXECUTE", "TERMINATED"} => z > 0

\* a request was dispatched to the shim after a complete handshake
C1_Witness ==
    /\ pc = "READY"
    /\ \E i \in DOMAIN trace : IsCallOp(trace[i], "bind") /\ FirstReady < i

----------------------------------------------------------------------------
(* C2: a successful handshake writes exactly one ParameterStatus for each  *)
(* of the twelve advertised names, carrying the value of that name's field *)
(* of the DefaultServerParameters the shim returned.                       *)

\* the advertised names and the DefaultServerParameters field of each
AdvertisedField ==
    [server_version |-> "server_version",
     server_encoding |-> "server_encoding",
     client_encoding |-> "client_encoding",
     application_name |-> "application_name",
     default_transaction_read_only |-> "default_transaction_read_only",
     in_hot_standby |-> "in_hot_standby",
     is_superuser |-> "is_superuser",
     DateStyle |-> "date_style",
     IntervalStyle |-> "interval_style",
     TimeZone |-> "time_zone",
     integer_datetimes |-> "integer_datetimes",
     standard_conforming_strings |-> "standard_conforming_strings"]

C2_OneStatusPerName ==
    FirstReady > 0 =>
        \A name \in DOMAIN AdvertisedField :
            LET I == {i \in DOMAIN trace :
                         /\ IsMsg(trace[i], "ParameterStatus")
                         /\ trace[i].msg.name = name}
            IN /\ Cardinality(I) = 1
               /\ \A i \in I : \E c \in DOMAIN trace :
                     /\ IsCallOp(trace[c], "default_parameters")
                     /\ trace[i].msg.value =
                            trace[c].msg.result[AdvertisedField[name]]

----------------------------------------------------------------------------
(* The history of one portal name, read off the trace.                     *)

\* Execute messages read for portal name n
ExecReads(n) ==
    {i \in DOMAIN trace : IsReadTag(trace[i], "E") /\ trace[i].msg.portal = n}

\* those that were handed to shim.execute
ExecCalls(n) ==
    {i \in ExecReads(n) : i < Len(trace) /\ IsCallOp(trace[i + 1], "execute")}

\* Bind messages for portal name n whose shim.bind call succeeded
BindOks(n) ==
    {i \in DOMAIN trace :
        /\ IsReadTag(trace[i], "B") /\ trace[i].msg.portal = n
        /\ i < Len(trace) /\ IsCallOp(trace[i + 1], "bind")
        /\ trace[i + 1].msg.result.ok}

----------------------------------------------------------------------------
(* C3: an Execute that finds its portal consumes it.  For every portal     *)
(* name: an Execute is handed to shim.execute exactly when the name was    *)
(* bound and not executed since; any other Execute is answered with an     *)
(* ErrorResponse and the pass ends with its flush (no abort, no shim       *)
(* call); while the last Execute that found the portal is not followed by  *)
(* a successful Bind, the name is absent from the table; and the number    *)
(* of shim.execute calls never exceeds the number of successful Binds.     *)
C3_ExecuteConsumesPortal ==
    \A n \in PortalNames :
        LET reads == ExecReads(n)
            calls == {i \in reads : IsCallOp(trace[i + 1], "execute")}
            binds == BindOks(n)
            bound(i) == \E b \in binds :
                            b < i /\ \A e \in calls : e < i => e < b
        IN
        /\ Cardinality(calls) <= Cardinality(binds)
        /\ \A i \in reads :
              IF bound(i)
              THEN IsCallOp(trace[i + 1], "execute")
              ELSE /\ IsMsg(trace[i + 1], "ErrorResponse")
                   /\ trace[i + 2].ev = "flush"
        /\ (/\ calls # {}
            /\ \A b \in binds : \E e \in calls : b < e)
              => n \notin DOMAIN portals

\* a portal was executed, and a second Execute of the same name with no
\* Bind in between got the ErrorResponse
C3_Witness ==
    \E n \in PortalNames : \E i, j \in ExecReads(n) :
        /\ i < j
        /\ i \in ExecCalls(n)
        /\ IsMsg(trace[j + 1], "ErrorResponse")
        /\ pc = "READY"

----------------------------------------------------------------------------
(* C4: in READY, an Execute naming a portal that is not in the table adds  *)
(* exactly the read, one ErrorResponse with code 'S' and message "Portal   *)
(* not found", and a flush; no shim call; the table is unchanged and the   *)
(* session is still in READY.                                              *)
C4_MissingPortal ==
    [][ (/\ pc = "READY"
         /\ Len(trace') > Len(trace)
         /\ IsReadTag(Added[1], "E")
         /\ Added[1].msg.portal \notin DOMAIN portals)
        => (/\ Len(Added) = 3
            /\ Added[2] = WriteEv([kind |-> "ErrorResponse", code |-> "S",
                                   message |-> "Portal not found"])
            /\ Added[3].ev = "flush"
            /\ portals' = portals
            /\ pc' = "READY") ]_vars

\* the ErrorResponse was sent and a later client message was processed
C4_Witness ==
    \E i \in DOMAIN trace :
        /\ IsReadTag(trace[i], "E")
        /\ IsMsg(trace[i + 1], "ErrorResponse")
        /\ \E j \in (i + 1)..Len(trace) : IsReadTag(trace[j], "S")
        /\ pc = "READY"

----------------------------------------------------------------------------
(* C5: a Bind whose shim.bind call succeeds leaves the table mapping the   *)
(* portal name to a portal with the returned data, the Bind's result       *)
(* format codes and no columns, whatever the name held before, and then    *)
(* writes BindComplete (and flushes).                                      *)
C5_BindInserts ==
    [][ (/\ pc = "READY"
         /\ Len(trace') > Len(trace) + 1
         /\ IsReadTag(Added[1], "B")
         /\ IsCallOp(Added[2], "bind")
         /\ Added[2].msg.result.ok)
        => LET f == Added[1].msg
               n == f.portal
           IN /\ DOMAIN portals' = DOMAIN portals \cup {n}
              /\ portals'[n].portal_data = Added[2].msg.result.val
              /\ portals'[n].result_format_codes =
                    [i \in DOMAIN f.result_format_codes |->
                        IF f.result_format_codes[i] = 0 THEN "Text" ELSE "Binary"]
              /\ portals'[n].columns = [some |-> FALSE]
              /\ Len(Added) = 4
              /\ Added[3] = WriteEv([kind |-> "BindComplete"])
              /\ Added[4].ev = "flush"
              /\ pc' = "READY" ]_vars

\* a portal that a Describe had given columns was bound again, to other
\* data, and holds no columns
C5_Witness ==
    \E n \in DOMAIN portals : \E b1, b2 \in BindOks(n) : \E d \in DOMAIN trace :
        /\ b1 < d /\ d < b2
        /\ IsReadTag(trace[d], "D") /\ trace[d].msg.name = n
        /\ IsMsg(trace[d + 2], "RowDescription")
        /\ trace[b1 + 1].msg.result.val # trace[b2 + 1].msg.result.val
        /\ ~portals[n].columns.some
        /\ portals[n].portal_data = trace[b2 + 1].msg.result.val

----------------------------------------------------------------------------
(* Reading a Bind frame: k format codes, p parameters.                     *)

NumCodes(f) == Len(f.parameter_format_codes)
NumParams(f) == Len(f.parameters)

\* every format code of the frame is 0 or 1
CodesValid(f) ==
    /\ \A i \in DOMAIN f.parameter_format_codes :
          f.parameter_format_codes[i] \in {0, 1}
    /\ \A i \in DOMAIN f.result_format_codes :
          f.result_format_codes[i] \in {0, 1}

\* parameter j of the frame is the wire's NULL (length -1)
IsNullParam(f, j) == f.parameters[j].size = 0 - 1

\* the format code that applies to parameter j when k is 0, 1 or p
CodeFor(f, j) ==
    IF NumCodes(f) = 0 THEN 0
    ELSE IF NumCodes(f) = 1 THEN f.parameter_format_codes[1]
    ELSE f.parameter_format_codes[j]

IsAscii(bytes) == \A i \in DOMAIN bytes : bytes[i] < 128

----------------------------------------------------------------------------
(* C6: a Bind with k format codes and p parameters, k not 0, 1 or p, is a  *)
(* protocol error: it is the last thing the session reads, shim.bind is    *)
(* not called, nothing is inserted and no BindComplete is written.         *)
C6_MisSizedFormatsRejected ==
    \A i \in DOMAIN trace :
        (/\ IsReadTag(trace[i], "B")
         /\ NumCodes(trace[i].msg) \notin {0, 1, NumParams(trace[i].msg)})
        => (/\ i = Len(trace)
            /\ pc \in {"ABORTED", "FAILED"}
            /\ DOMAIN portals = {})

----------------------------------------------------------------------------
(* C7: for a Bind with valid format codes, p parameters that carry bytes   *)
(* and k in {0, 1, p}, shim.bind is called with exactly p values in the    *)
(* client's order: value j is Text when k = 0, has the one given format    *)
(* when k = 1 and the j-th format when k = p; a Binary value is the raw    *)
(* bytes, a Text value the bytes read as text (the same bytes when they    *)
(* are ASCII).                                                             *)
C7_ParameterFormats ==
    \A i \in DOMAIN trace :
        (/\ IsReadTag(trace[i], "B")
         /\ CodesValid(trace[i].msg)
         /\ \A j \in DOMAIN trace[i].msg.parameters : ~IsNullParam(trace[i].msg, j)
         /\ NumCodes(trace[i].msg) \in {0, 1, NumParams(trace[i].msg)})
        => LET f == trace[i].msg IN
           /\ i < Len(trace)
           /\ IsCallOp(trace[i + 1], "bind")
           /\ LET v == trace[i + 1].msg.parameters IN
              /\ Len(v) = NumParams(f)
              /\ \A j \in 1..NumParams(f) :
                    IF CodeFor(f, j) = 1
                    THEN v[j] = [format |-> "Binary",
                                 value |-> f.parameters[j].data]
                    ELSE /\ v[j].format = "Text"
                         /\ v[j].value = Utf8Lossy(f.parameters[j].data)
                         /\ IsAscii(f.parameters[j].data) =>
                               v[j].value = f.parameters[j].data

\* shim.bind received two parameters paired with two different codes
C7_Witness ==
    \E i \in DOMAIN trace :
        /\ IsCallOp(trace[i], "bind")
        /\ trace[i].msg.parameters =
              << [format |-> "Text", value |-> <<65>>],
                 [format |-> "Binary", value |-> <<255>>] >>
        /\ trace[i - 1].msg.parameter_format_codes = <<0, 1>>

----------------------------------------------------------------------------
(* C8: a Bind parameter of wire length -1 reaches shim.bind as a           *)
(* distinguished NULL value: the Bind (valid otherwise, k in {0, 1, p}) is *)
(* accepted, shim.bind gets p values, the NULL ones marked as NULL and the *)
(* others as for any Bind, and the session does not end on it.             *)
C8_NullParameterDelivered ==
    \A i \in DOMAIN trace :
        (/\ IsReadTag(trace[i], "B")
         /\ CodesValid(trace[i].msg)
         /\ \E j \in DOMAIN trace[i].msg.parameters : IsNullParam(trace[i].msg, j)
         /\ NumCodes(trace[i].msg) \in {0, 1, NumParams(trace[i].msg)})
        => LET f == trace[i].msg IN
           /\ i < Len(trace)
           /\ IsCallOp(trace[i + 1], "bind")
           /\ LET v == trace[i + 1].msg.parameters IN
              /\ Len(v) = NumParams(f)
              /\ \A j \in 1..NumParams(f) :
                    IF IsNullParam(f, j)
                    THEN v[j].format = "Null"
                    ELSE v[j].format = IF CodeFor(f, j) = 1 THEN "Binary" ELSE "Text"
           /\ trace[i + 1].msg.result.ok =>
                 (pc = "READY" /\ IsMsg(trace[i + 2], "BindComplete"))

----------------------------------------------------------------------------
(* Result-format negotiation as the specification states it: N columns and *)
(* r codes give N codes when r is 0, 1 or N.                               *)

Negotiable(columns, codes) == Len(codes) \in {0, 1, Len(columns)}

NegotiatedCode(codes, i) ==
    IF Len(codes) = 0 THEN "Text"
    ELSE IF Len(codes) = 1 THEN codes[1]
    ELSE codes[i]

\* the step reads a Describe(Portal) of a portal in the table and the
\* shim's describe call returns successfully
DescribesPortal ==
    /\ pc = "READY"
    /\ Len(trace') > Len(trace) + 1
    /\ IsReadTag(Added[1], "D")
    /\ Added[1].msg.kind = "P"
    /\ Added[1].msg.name \in DOMAIN portals
    /\ IsCallOp(Added[2], "describe")
    /\ Added[2].msg.result.ok

\* the step is a start_writing call of the shim
StartsWriting ==
    /\ pc = "IN_EXECUTE"
    /\ Len(trace') > Len(trace)
    /\ Added[1].ev = "api"
    /\ Added[1].msg.op = "start_writing"

----------------------------------------------------------------------------
(* C9: Describe(Portal) of a portal in the table.  When shim.describe      *)
(* returns none, NoData is written and the table is unchanged.  When it    *)
(* returns columns (and the portal's result format codes can be            *)
(* negotiated for them), one RowDescription is written whose fields are    *)
(* the columns in order, each with its negotiated code, and the portal     *)
(* holds those columns.  A portal holds columns only if such a Describe    *)
(* happened since its last Bind.                                           *)
C9_DescribePortal ==
    /\ [][ DescribesPortal =>
           LET n == Added[1].msg.name
               old == portals[n]
               res == Added[2].msg.result.val
           IN IF ~res.some
              THEN /\ Len(Added) = 4
                   /\ Added[3] = WriteEv([kind |-> "NoData"])
                   /\ Added[4].ev = "flush"
                   /\ portals' = portals
              ELSE Negotiable(res.val, old.result_format_codes) =>
                   /\ Len(Added) = 4
                   /\ IsMsg(Added[3], "RowDescription")
                   /\ Added[4].ev = "flush"
                   /\ Len(Added[3].msg.fields) = Len(res.val)
                   /\ \A i \in DOMAIN res.val :
                         Added[3].msg.fields[i] =
                            [name |-> res.val[i].name,
                             column_type |-> res.val[i].column_type,
                             format |-> NegotiatedCode(old.result_format_codes, i)]
                   /\ DOMAIN portals' = DOMAIN portals
                   /\ portals'[n].columns = [some |-> TRUE, val |-> res.val]
                   /\ portals'[n].portal_data = old.portal_data
                   /\ portals'[n].result_format_codes = old.result_format_codes
         ]_vars
    /\ [](\A n \in DOMAIN portals :
            portals[n].columns.some =>
               \E d \in DOMAIN trace :
                  /\ IsReadTag(trace[d], "D")
                  /\ trace[d].msg.kind = "P" /\ trace[d].msg.name = n
                  /\ IsMsg(trace[d + 2], "RowDescription")
                  /\ trace[d + 1].msg.result.val = portals[n].columns
                  /\ \A b \in BindOks(n) : b < d)

\* a portal bound with two different result codes holds two described
\* columns, and another Describe of it was answered with NoData
C9_Witness ==
    \E n \in DOMAIN portals :
        /\ portals[n].columns.some
        /\ Len(portals[n].columns.val) = 2
        /\ portals[n].result_format_codes = <<"Text", "Binary">>
        /\ \E i \in DOMAIN trace : IsMsg(trace[i], "NoData")

----------------------------------------------------------------------------
(* C10: result-format negotiation in Describe(Portal) and in               *)
(* start_writing.  For N columns and r result format codes with r in       *)
(* {0, 1, N} the RowDescription, respectively the row writer, carries      *)
(* exactly N codes: Text for r = 0, the one code for r = 1, the given      *)
(* codes in order for r = N.  For any other r the session aborts in that   *)
(* step, nothing is written by it, and nothing happens afterwards.         *)
C10_Negotiation ==
    [][ /\ (DescribesPortal /\ Added[2].msg.result.val.some) =>
              LET columns == Added[2].msg.result.val.val
                  codes == portals[Added[1].msg.name].result_format_codes
              IN IF Negotiable(columns, codes)
                 THEN /\ Len(Added) = 4
                      /\ IsMsg(Added[3], "RowDescription")
                      /\ Len(Added[3].msg.fields) = Len(columns)
                      /\ \A i \in DOMAIN columns :
                            Added[3].msg.fields[i].format = NegotiatedCode(codes, i)
                 ELSE /\ pc' = "ABORTED"
                      /\ \A i \in DOMAIN Added : Added[i].ev # "write"
        /\ StartsWriting =>
              LET columns == Added[1].msg.columns
                  codes == writer.result_format_codes
              IN /\ Len(Added) = 1
                 /\ IF Negotiable(columns, codes)
                    THEN /\ pc' = "IN_EXECUTE"
                         /\ writer'.kind = "RowWriter"
                         /\ Len(writer'.result_format_codes) = Len(columns)
                         /\ \A i \in DOMAIN columns :
                               writer'.result_format_codes[i] = NegotiatedCode(codes, i)
                    ELSE pc' = "ABORTED"
        /\ pc # "ABORTED"
      ]_vars

\* a portal bound with the codes Text, Binary was described with two
\* columns and a row writer was started on two columns
C10_Witness ==
    /\ writer.kind = "RowWriter"
    /\ writer.result_format_codes = <<"Text", "Binary">>
    /\ \E i \in DOMAIN trace :
          /\ IsMsg(trace[i], "RowDescription")
          /\ Len(trace[i].msg.fields) = 2
          /\ trace[i].msg.fields[1].format = "Text"
          /\ trace[i].msg.fields[2].format = "Binary"

----------------------------------------------------------------------------
(* Reading the trace: the Bind and the Describe a portal comes from.       *)

\* the last of a non-empty set of positions
LastOf(S) == CHOOSE i \in S : \A j \in S : j <= i

\* Describe(Portal) messages for portal name n that were answered with a
\* RowDescription
DescribeStores(n) ==
    {d \in DOMAIN trace :
        /\ IsReadTag(trace[d], "D")
        /\ trace[d].msg.kind = "P" /\ trace[d].msg.name = n
        /\ d + 2 <= Len(trace)
        /\ IsMsg(trace[d + 2], "RowDescription")}

----------------------------------------------------------------------------
(* C11: when an Execute read in READY names a portal of the table, the     *)
(* pass makes exactly one shim call, execute, with the data the last       *)
(* successful Bind of that name returned, the Execute's max_rows, the      *)
(* columns of the last Describe of that name answered with a               *)
(* RowDescription since that Bind (none when there is no such Describe),   *)
(* and a ResultWriter carrying the result format codes of that Bind; and   *)
(* no shim call is made while execute runs.                                *)
C11_ExecuteArguments ==
    [][ /\ (/\ pc = "READY"
            /\ Len(trace') > Len(trace)
            /\ IsReadTag(Added[1], "E")
            /\ Added[1].msg.portal \in DOMAIN portals)
           => LET f == Added[1].msg
                  n == f.portal
                  b == LastOf(BindOks(n))
                  D == {d \in DescribeStores(n) : d > b}
                  codes == trace[b].msg.result_format_codes
              IN /\ BindOks(n) # {}
                 /\ Len(Added) = 2
                 /\ IsCallOp(Added[2], "execute")
                 /\ Added[2].msg.portal = trace[b + 1].msg.result.val
                 /\ Added[2].msg.max_rows = f.max_rows
                 /\ Added[2].msg.columns =
                       IF D = {} THEN [some |-> FALSE]
                       ELSE trace[LastOf(D) + 1].msg.result.val
                 /\ writer' =
                       [kind |-> "ResultWriter",
                        result_format_codes |->
                            [i \in DOMAIN codes |->
                                IF codes[i] = 0 THEN "Text" ELSE "Binary"]]
                 /\ Added[2].msg.result_format_codes = writer'.result_format_codes
                 /\ pc' = "IN_EXECUTE"
        /\ pc = "IN_EXECUTE" =>
              \A i \in 1..(Len(trace') - Len(trace)) : Added[i].ev # "call"
      ]_vars

\* a portal bound with the codes Text, Binary and described with columns
\* was executed with its row limit
C11_Witness ==
    \E i \in DOMAIN trace :
        /\ IsCallOp(trace[i], "execute")
        /\ trace[i].msg.columns.some
        /\ trace[i].msg.max_rows = 7
        /\ trace[i].msg.result_format_codes = <<"Text", "Binary">>

----------------------------------------------------------------------------
(* C12: the server messages follow the client messages that cause them.    *)
(* Every message written comes after a client message was read and is of   *)
(* a kind the last message read causes (so the output of one client        *)
(* message lies wholly before the next one is read); when the loop reads   *)
(* a message after an Execute that reached the shim, execute has returned; *)
(* and a DataRow, CommandComplete or RowDescription written during an      *)
(* Execute of a portal comes after the BindComplete of a Bind of that      *)
(* portal.                                                                 *)

\* the kinds of server message a client message of this tag causes
ResponseKinds(tag) ==
    CASE tag = "Startup" -> {"AuthenticationCleartextPassword"}
      [] tag = "p" -> {"AuthenticationOk", "ParameterStatus",
                       "BackendKeyData", "ReadyForQuery"}
      [] tag = "P" -> {"ParseComplete"}
      [] tag = "B" -> {"BindComplete"}
      [] tag = "D" -> {"RowDescription", "NoData"}
      [] tag = "E" -> {"ErrorResponse", "EmptyQueryResponse",
                       "RowDescription", "DataRow", "CommandComplete"}
      [] tag = "S" -> {"ReadyForQuery"}
      [] OTHER -> {}

\* the position of the last read of t at or before position i, 0 when
\* there is none
RECURSIVE LastReadIn(_, _)
LastReadIn(t, i) ==
    IF i < 1 THEN 0
    ELSE IF t[i].ev = "read" THEN i ELSE LastReadIn(t, i - 1)

C12_ResponseOrder ==
    [][ \A k \in 1..(Len(trace') - Len(trace)) :
          LET i == Len(trace) + k
              r == LastReadIn(trace', i - 1)
          IN
          /\ trace'[i].ev = "write" =>
                /\ r > 0
                /\ trace'[i].msg.kind \in ResponseKinds(trace'[r].msg.tag)
                /\ (/\ trace'[r].msg.tag = "E"
                    /\ trace'[i].msg.kind \in {"RowDescription", "DataRow",
                                               "CommandComplete"})
                      => \E b \in BindOks(trace'[r].msg.portal) :
                            /\ b + 2 < r
                            /\ IsMsg(trace[b + 2], "BindComplete")
          /\ (trace'[i].ev = "read" /\ r > 0) =>
                ((r < Len(trace) /\ IsCallOp(trace[r + 1], "execute"))
                   => \E j \in (r + 2)..(i - 1) : trace[j].ev = "return")
      ]_vars

\* a portal was bound and executed, the shim wrote a DataRow and the
\* CommandComplete, and the next client message was answered
C12_Witness ==
    \E c \in DOMAIN trace :
        /\ IsMsg(trace[c], "CommandComplete")
        /\ IsMsg(trace[c - 1], "DataRow")
        /\ \E z \in (c + 1)..Len(trace) :
              /\ IsMsg(trace[z], "ReadyForQuery")
              /\ IsReadTag(trace[z - 1], "S")

----------------------------------------------------------------------------
(* C13: once a Terminate has been read, run has returned Ok(()): nothing   *)
(* is written to the stream after it, no message is read and no shim call  *)
(* is made, whatever portals the table still holds; and run returns Ok(()) *)
(* only this way.                                                          *)
C13_TerminateReturns ==
    /\ \A i \in DOMAIN trace :
          IsReadTag(trace[i], "X") =>
              /\ pc = "TERMINATED"
              /\ \A j \in (i + 1)..Len(trace) :
                    trace[j].ev \notin {"write", "read", "call"}
    /\ pc = "TERMINATED" =>
          (trace # << >> /\ IsReadTag(trace[Len(trace)], "X"))

\* the session was terminated while a portal was open
C13_Witness ==
    /\ pc = "TERMINATED"
    /\ DOMAIN portals # {}
    /\ IsReadTag(trace[Len(trace)], "X")

----------------------------------------------------------------------------
(* C14: every Sync read is answered by exactly one ReadyForQuery, with     *)
(* status 'I', written right after the read; every ReadyForQuery in the    *)
(* stream carries 'I' and is either the one of the handshake or the        *)
(* answer to a Sync.                                                       *)
C14_ReadyForQueryIdle ==
    [][ /\ \A k \in 1..(Len(trace') - Len(trace)) :
              /\ IsReadTag(Added[k], "S") =>
                    /\ k + 2 <= Len(Added)
                    /\ Added[k + 1] = WriteEv([kind |-> "ReadyForQuery",
                                               transaction_status |-> "I"])
                    /\ Added[k + 2].ev = "flush"
              /\ IsMsg(Added[k], "ReadyForQuery") =>
                    /\ Added[k].msg.transaction_status = "I"
                    /\ \/ pc = "EXPECT_PASSWORD" /\ FirstReady = 0
                       \/ k > 1 /\ IsReadTag(Added[k - 1], "S")
        /\ Cardinality({k \in 1..(Len(trace') - Len(trace)) :
                            IsMsg(Added[k], "ReadyForQuery")}) <= 1
      ]_vars

\* a Sync was answered after an ErrorResponse, with a portal open
C14_Witness ==
    /\ DOMAIN portals # {}
    /\ \E e \in DOMAIN trace :
          /\ IsMsg(trace[e], "ErrorResponse")
          /\ \E i \in (e + 1)..(Len(trace) - 1) :
                /\ IsReadTag(trace[i], "S")
                /\ IsMsg(trace[i + 1], "ReadyForQuery")

----------------------------------------------------------------------------
(* C15: flushes.  Whenever run awaits a client message in READY the last   *)
(* thing it did was a flush; between two consecutive reads there is        *)
(* exactly one flush and it comes last, after whatever the first message   *)
(* caused; a Terminate is followed by no flush; and the handshake flushes  *)
(* exactly twice, right after AuthenticationCleartextPassword and right    *)
(* after the first ReadyForQuery.                                          *)
C15_FlushAfterEachMessage ==
    [][ LET n == Len(trace)
            m == Len(trace')
        IN
        /\ pc' = "READY" => trace'[m].ev = "flush"
        /\ (m > n /\ n > 0 /\ Added[1].ev = "read") =>
              LET r == LastReadIn(trace, n) IN
              /\ r > 0
              /\ trace[n].ev = "flush"
              /\ \A j \in (r + 1)..(n - 1) : trace[j].ev # "flush"
        /\ (m > n /\ IsReadTag(Added[1], "X")) =>
              \A k \in 1..(m - n) : Added[k].ev # "flush"
        /\ pc # "TERMINATED"
        /\ \A k \in 1..(m - n) :
              IsMsg(Added[k], "AuthenticationCleartextPassword") =>
                  (k < m - n /\ Added[k + 1].ev = "flush")
        /\ (pc = "EXPECT_PASSWORD" /\ pc' = "READY") =>
              /\ IsMsg(trace'[m - 1], "ReadyForQuery")
              /\ Cardinality({j \in 1..m : trace'[j].ev = "flush"}) = 2
      ]_vars

\* an Execute that reached the shim was flushed, a Query was read after
\* it, and run awaits the next message
C15_Witness ==
    /\ pc = "READY"
    /\ \E q \in DOMAIN trace :
          /\ IsReadTag(trace[q], "Q")
          /\ trace[q - 2].ev = "return"
          /\ trace[q - 1].ev = "flush"

----------------------------------------------------------------------------
(* C16: a first message carrying the SSLRequest code 80877103 or the       *)
(* CancelRequest code 80877102 ends the session: once it has been read     *)
(* the session has failed, no AuthenticationCleartextPassword is in the    *)
(* stream and READY is not reached.                                        *)
C16_RequestCodesRejected ==
    \A i \in DOMAIN trace :
        (/\ IsReadTag(trace[i], "Startup")
         /\ trace[i].msg.protocol_version \in {80877103, 80877102})
        => /\ pc \in {"FAILED", "ABORTED"}
           /\ \A j \in DOMAIN trace :
                 ~IsMsg(trace[j], "AuthenticationCleartextPassword")

----------------------------------------------------------------------------
(* C17: fatal protocol violations.  A step that reads an unknown message   *)
(* tag in READY, a Describe whose kind is not 'P' (a Describe(Statement)   *)
(* or an unknown kind), a Bind carrying a format code other than 0 or 1,   *)
(* or a message other than 'p' where the PasswordMessage is expected,      *)
(* does nothing but that read: no shim call, no message written, no       *)
(* flush, the table unchanged; it ends the session with a failure, after   *)
(* which the session takes no step; and after the missing password no      *)
(* AuthenticationOk is in the stream.                                      *)

LoopTags == {"P", "B", "D", "E", "S", "Q", "X"}

BadFormatCode(f) ==
    \/ \E k \in DOMAIN f.parameter_format_codes :
          f.parameter_format_codes[k] \notin {0, 1}
    \/ \E k \in DOMAIN f.result_format_codes :
          f.result_format_codes[k] \notin {0, 1}

\* the step reads a message that violates the protocol
ProtocolViolation ==
    /\ Len(trace') > Len(trace)
    /\ Added[1].ev = "read"
    /\ \/ pc = "EXPECT_PASSWORD" /\ Added[1].msg.tag # "p"
       \/ /\ pc = "READY"
          /\ \/ Added[1].msg.tag \notin LoopTags
             \/ Added[1].msg.tag = "D" /\ Added[1].msg.kind # "P"
             \/ Added[1].msg.tag = "B" /\ BadFormatCode(Added[1].msg)

C17_ViolationsAreFatal ==
    [][ /\ ProtocolViolation =>
              /\ Len(Added) = 1
              /\ pc' \in {"ABORTED", "FAILED"}
              /\ portals' = portals
              /\ pc = "EXPECT_PASSWORD" =>
                    \A j \in DOMAIN trace' :
                        ~IsMsg(trace'[j], "AuthenticationOk")
        /\ pc \notin {"ABORTED", "FAILED"}
      ]_vars

\* with a portal open, a Bind carrying the format code 2 ended the session
C17_Witness ==
    /\ pc = "ABORTED"
    /\ DOMAIN portals # {}
    /\ IsReadTag(trace[Len(trace)], "B")
    /\ trace[Len(trace)].msg.result_format_codes = <<2>>

----------------------------------------------------------------------------
(* C18: the row count of a RowWriter.  A write_row call on the writer      *)
(* writes exactly one DataRow and raises the writer's count by one; the    *)
(* count is the number of write_row calls since the start_writing that     *)
(* made the writer; finish writes exactly one message, the                 *)
(* CommandComplete whose tag is "SELECT n" for that number n, and leaves   *)
(* no writer to finish again.                                              *)

\* write_row calls since the last start_writing
RowsWritten ==
    LET S == {i \in DOMAIN trace :
                 trace[i].ev = "api" /\ trace[i].msg.op = "start_writing"}
    IN Cardinality({j \in DOMAIN trace :
                       /\ j > LastOf(S)
                       /\ trace[j].ev = "api"
                       /\ trace[j].msg.op = "write_row"})

\* the bytes of "SELECT n" and the terminating 0, for n below 100
SelectTag(n) ==
    <<83, 69, 76, 69, 67, 84, 32>>
        \o (IF n < 10 THEN <<48 + n>> ELSE <<48 + (n \div 10), 48 + (n % 10)>>)
        \o <<0>>

C18_RowCount ==
    [][ /\ writer.kind = "RowWriter" => writer.row_count = RowsWritten
        /\ (/\ Len(trace') > Len(trace)
            /\ Added[1].ev = "api"
            /\ Added[1].msg.op = "write_row")
           => /\ writer.kind = "RowWriter"
              /\ Len(Added) = 2
              /\ IsMsg(Added[2], "DataRow")
              /\ writer'.kind = "RowWriter"
              /\ writer'.row_count = writer.row_count + 1
        /\ (/\ Len(trace') > Len(trace)
            /\ IsMsg(Added[1], "CommandComplete"))
           => /\ writer.kind = "RowWriter"
              /\ Len(Added) = 1
              /\ Added[1].msg.rows = RowsWritten
              /\ LET bytes == Encode(Added[1].msg) IN
                 SubSeq(bytes, 6, Len(bytes)) = SelectTag(RowsWritten)
              /\ writer'.kind = "none"
      ]_vars

\* a writer was finished after one row
C18_Witness ==
    \E i \in DOMAIN trace :
        /\ IsMsg(trace[i], "CommandComplete") /\ trace[i].msg.rows = 1
        /\ IsMsg(trace[i - 1], "DataRow")
        /\ trace[i - 2].ev = "api" /\ trace[i - 2].msg.op = "write_row"

----------------------------------------------------------------------------
(* Reading the bytes of a DataRow: the count at bytes 6-7, then for each   *)
(* slot a 32-bit length and, unless it is -1, that many bytes.             *)

\* the signed value of the four bytes at position i
I32At(bytes, i) ==
    (IF bytes[i] >= 128 THEN bytes[i] - 256 ELSE bytes[i]) * 16777216
        + bytes[i + 1] * 65536 + bytes[i + 2] * 256 + bytes[i + 3]

U16At(bytes, i) == bytes[i] * 256 + bytes[i + 1]

\* the n slots that start at position i; the bytes must end with them
RECURSIVE ReadSlots(_, _, _)
ReadSlots(bytes, i, n) ==
    IF n = 0
    THEN IF i = Len(bytes) + 1 THEN << >> ELSE <<"trailing bytes">>
    ELSE LET len == I32At(bytes, i) IN
         IF len = 0 - 1
         THEN <<[some |-> FALSE]>> \o ReadSlots(bytes, i + 4, n - 1)
         ELSE <<[some |-> TRUE, val |-> SubSeq(bytes, i + 4, i + 3 + len)]>>
                  \o ReadSlots(bytes, i + 4 + len, n - 1)

----------------------------------------------------------------------------
(* C19: the DataRow of a write_row.  Its field count is the number of      *)
(* fields written; a field for which the value's serialiser (as_bin_value  *)
(* in a binary column, as_str_value in a text column) reports null is the  *)
(* length -1 with no bytes after it; any other field is the length of its  *)
(* bytes followed by exactly those bytes.                                  *)
C19_NullSlots ==
    [][ (/\ Len(trace') > Len(trace) + 1
         /\ Added[1].ev = "api"
         /\ Added[1].msg.op = "write_row"
         /\ IsMsg(Added[2], "DataRow"))
        => LET rows == Added[1].msg.rows
               fields == Added[2].msg.fields
               bytes == Encode(Added[2].msg)
               reported(i) ==
                   IF writer.result_format_codes[i] = "Binary"
                   THEN rows[i].to_sql.val
                   ELSE IF rows[i].to_string = <<78, 85, 76, 76>>
                        THEN [some |-> FALSE]
                        ELSE [some |-> TRUE, val |-> rows[i].to_string]
           IN /\ bytes[1] = 68
              /\ U16At(bytes, 6) = Len(fields)
              /\ ReadSlots(bytes, 8, Len(fields)) = fields
              /\ \A i \in DOMAIN fields : fields[i] = reported(i)
      ]_vars

\* a NULL and an empty string were written in one DataRow
C19_Witness ==
    \E i \in DOMAIN trace :
        /\ IsMsg(trace[i], "DataRow")
        /\ \E a, b \in DOMAIN trace[i].msg.fields :
              /\ ~trace[i].msg.fields[a].some
              /\ trace[i].msg.fields[b] = [some |-> TRUE, val |-> << >>]

----------------------------------------------------------------------------
(* C20: whatever message the encoder writes, the 32-bit length at bytes    *)
(* 2-5 is the number of bytes that follow the tag byte, the four bytes of  *)
(* the length included.                                                    *)
C20_DeclaredLength ==
    pc = "ENCODED" =>
        LET bytes == trace[2].msg IN
        /\ Len(bytes) >= 5
        /\ I32At(bytes, 2) = Len(bytes) - 1

\* a DataRow of a NULL and a four-byte value was encoded
C20_Witness ==
    /\ pc = "ENCODED"
    /\ trace[1].msg = [kind |-> "DataRow",
                       fields |-> << [some |-> FALSE],
                                     [some |-> TRUE, val |-> <<0, 0, 0, 1>>] >>]
    /\ Len(trace[2].msg) = 19

----------------------------------------------------------------------------
(* C21: start_writing and empty_result.  A start_writing call puts no      *)
(* message on the stream.  When the shim's execute returns having made     *)
(* no call on its ResultWriter but empty_result, the session wrote, from   *)
(* the Execute message to the end of its pass of the loop, exactly one     *)
(* message, the EmptyQueryResponse whose bytes are 'I' and the length 4:   *)
(* no RowDescription, DataRow, CommandComplete or ReadyForQuery.           *)

\* position of the last call of shim.execute
LastExecuteCall == LastOf({i \in DOMAIN trace : IsCallOp(trace[i], "execute")})

\* what happened inside the running shim.execute so far
InExecute == SubSeq(trace, LastExecuteCall + 1, Len(trace))

C21_EmptyResultOnly ==
    [][ /\ (\E i \in 1..Len(Added) :
               Added[i].ev = "api" /\ Added[i].msg.op = "start_writing")
           => \A j \in 1..Len(Added) : Added[j].ev # "write"
        /\ (/\ Len(trace') > Len(trace)
            /\ Added[1].ev = "return"
            /\ writer.kind = "none"
            /\ \A i \in 1..Len(InExecute) : InExecute[i].ev # "api")
           => /\ InExecute = << WriteEv(EmptyQueryResponse) >>
              /\ Encode(InExecute[1].msg) = <<73, 0, 0, 0, 4>>
              /\ IsReadTag(trace[LastExecuteCall - 1], "E")
              /\ \A j \in 1..Len(Added) : Added[j].ev # "write"
      ]_vars

\* an Execute was answered by an EmptyQueryResponse alone and flushed
C21_Witness ==
    \E i \in DOMAIN trace :
        /\ i + 3 = Len(trace)
        /\ IsCallOp(trace[i], "execute")
        /\ trace[i + 1] = WriteEv(EmptyQueryResponse)
        /\ trace[i + 2].ev = "return"
        /\ trace[i + 3] = FlushEv

----------------------------------------------------------------------------
(* C22: failures of the shim.  When prepare, bind or describe returns a    *)
(* failure, the pass of the loop that made the call adds nothing after     *)
(* the call: no ParseComplete, BindComplete, NoData or RowDescription, no  *)
(* flush; the portal table is unchanged (a failed bind inserts and         *)
(* replaces nothing) and run has returned the failure.  When execute       *)
(* returns a failure, run adds nothing after the return, not even the      *)
(* flush, and has returned the failure.  Once run has returned a failure   *)
(* the session takes no step, so no further message is read.               *)

\* the step calls prepare, bind or describe and the shim answers a failure
ShimCallFails ==
    \E i \in 1..Len(Added) :
        /\ Added[i].ev = "call"
        /\ Added[i].msg.op \in {"prepare", "bind", "describe"}
        /\ ~Added[i].msg.result.ok

C22_ShimFailureReturned ==
    [][ /\ ShimCallFails
           => /\ Len(Added) = 2
              /\ Added[1].ev = "read"
              /\ Added[2].ev = "call"
              /\ portals' = portals
              /\ pc' = "FAILED"
        /\ (/\ Len(trace') > Len(trace)
            /\ Added[1].ev = "return"
            /\ ~Added[1].msg.ok)
           => /\ Len(Added) = 1
              /\ portals' = portals
              /\ pc' = "FAILED"
        /\ pc # "FAILED"
      ]_vars

\* a Bind on a name that holds a portal failed in the shim: the portal of
\* the earlier Bind is still the one in the table
C22_Witness ==
    /\ pc = "FAILED"
    /\ Len(trace) > 2
    /\ IsCallOp(trace[Len(trace)], "bind")
    /\ ~trace[Len(trace)].msg.result.ok
    /\ IsReadTag(trace[Len(trace) - 1], "B")
    /\ trace[Len(trace) - 1].msg.portal \in DOMAIN portals

----------------------------------------------------------------------------
(* C23: malformed lengths.  A message read by the loop whose length field  *)
(* is below 4, or is not 4 on a Sync or a Terminate, ends the session      *)
(* with a failure: the pass of the loop does nothing but read it (no       *)
(* ReadyForQuery, no other message, no flush) and run does not go on to    *)
(* the next message nor return as for a Terminate.                         *)

\* the step reads a loop message whose length field is malformed
MalformedLength ==
    /\ pc = "READY"
    /\ Len(trace') > Len(trace)
    /\ Added[1].ev = "read"
    /\ \/ Added[1].msg.length < 4
       \/ Added[1].msg.tag \in {"S", "X"} /\ Added[1].msg.length # 4

C23_MalformedLengthFatal ==
    [][ MalformedLength
        => /\ Len(Added) = 1
           /\ pc' \in {"ABORTED", "FAILED"}
      ]_vars

----------------------------------------------------------------------------
(* C24: Describe of a missing portal.  A Describe(Portal) whose name is    *)
(* not in the portal table, because it was never bound or because an       *)
(* Execute consumed it, aborts the session: the pass of the loop does      *)
(* nothing but read the message (no ErrorResponse, no other message, no    *)
(* call of describe, no flush), the table is unchanged and the session     *)
(* is not READY again.                                                     *)

\* the step reads a Describe(Portal) for a name the table does not hold
DescribesMissingPortal ==
    /\ pc = "READY"
    /\ Len(trace') > Len(trace)
    /\ IsReadTag(Added[1], "D")
    /\ Added[1].msg.kind = "P"
    /\ Added[1].msg.name \notin DOMAIN portals

C24_DescribeMissingAborts ==
    [][ DescribesMissingPortal
        => /\ Len(Added) = 1
           /\ pc' = "ABORTED"
           /\ portals' = portals
      ]_vars

\* the portal was bound and executed; the Describe that came after the
\* Execute aborted the session
C24_Witness ==
    /\ pc = "ABORTED"
    /\ Len(trace) > 2
    /\ IsReadTag(trace[Len(trace)], "D")
    /\ trace[Len(trace)].msg.kind = "P"
    /\ \E i \in 1..(Len(trace) - 2) :
          /\ IsReadTag(trace[i], "E")
          /\ trace[i].msg.portal = trace[Len(trace)].msg.name
          /\ IsCallOp(trace[i + 1], "execute")

----------------------------------------------------------------------------
(* C25: the width of a DataRow.  write_row on a writer started with N      *)
(* columns, given m values, converts the first min(m, N) values only.      *)
(* Unless one of those is a value of a binary column that ToSql cannot     *)
(* convert (the call panics), it writes one DataRow whose field count,     *)
(* in the message and in its bytes, is min(m, N), and succeeds: the        *)
(* writer stays usable and has counted the row.  Values beyond the         *)
(* columns are dropped, whatever they are, and a row shorter than the      *)
(* columns is written as it is.                                            *)
C25_RowWidth ==
    [][ (/\ Len(trace') > Len(trace)
         /\ Added[1].ev = "api"
         /\ Added[1].msg.op = "write_row")
        => LET rows == Added[1].msg.rows
               m == Len(rows)
               N == Len(writer.types)
               k == IF m < N THEN m ELSE N
           IN IF \E i \in 1..k : /\ writer.result_format_codes[i] = "Binary"
                                 /\ ~rows[i].to_sql.ok
              THEN Len(Added) = 1 /\ pc' = "ABORTED"
              ELSE /\ Len(Added) = 2
                   /\ IsMsg(Added[2], "DataRow")
                   /\ Len(Added[2].msg.fields) = k
                   /\ U16At(Encode(Added[2].msg), 6) = k
                   /\ pc' = "IN_EXECUTE"
                   /\ writer'.kind = "RowWriter"
                   /\ writer'.row_count = writer.row_count + 1
      ]_vars

\* on a writer of one column, a row of two values, the second one not
\* convertible, was written as a DataRow of one field
C25_Witness ==
    /\ Len(trace) > 2
    /\ LET n == Len(trace) IN
       /\ IsMsg(trace[n], "DataRow")
       /\ Len(trace[n].msg.fields) = 1
       /\ trace[n - 1].ev = "api" /\ trace[n - 1].msg.op = "write_row"
       /\ Len(trace[n - 1].msg.rows) = 2
       /\ ~trace[n - 1].msg.rows[2].to_sql.ok
       /\ trace[n - 2].ev = "api" /\ trace[n - 2].msg.op = "start_writing"
       /\ Len(trace[n - 2].msg.columns) = 1

----------------------------------------------------------------------------
(* C26: what a step leaves alone in the portal table.  Only a pass of the  *)
(* loop that reads a Bind or an Execute changes the set of portal names.   *)
(* A Parse, a Sync, a Query, a Terminate, the handshake and the shim's     *)
(* use of its writer leave the table as it is.  A Describe changes at      *)
(* most the columns of the portal it names.  A Bind adds at most the name  *)
(* it binds and removes none; an Execute removes at most the name it       *)
(* executes and adds none.  Every portal under another name keeps its      *)
(* handler data, result format codes and columns.                          *)

\* the tag of the message the step reads in the loop, "-" for other steps
TagRead ==
    IF pc = "READY" /\ Len(trace') > Len(trace) /\ Added[1].ev = "read"
    THEN Added[1].msg.tag ELSE "-"

\* every portal under a name other than n is in the table as before
OthersKept(n) ==
    \A k \in (DOMAIN portals \cup DOMAIN portals') \ {n} :
        /\ k \in DOMAIN portals
        /\ k \in DOMAIN portals'
        /\ portals'[k] = portals[k]

C26_PortalFrame ==
    [][ /\ TagRead \notin {"B", "E"} => DOMAIN portals' = DOMAIN portals
        /\ TagRead \notin {"B", "E", "D"} => portals' = portals
        /\ TagRead = "D" =>
              /\ OthersKept(Added[1].msg.name)
              /\ \A k \in DOMAIN portals :
                    /\ portals'[k].portal_data = portals[k].portal_data
                    /\ portals'[k].result_format_codes
                           = portals[k].result_format_codes
        /\ TagRead = "B" =>
              /\ OthersKept(Added[1].msg.portal)
              /\ DOMAIN portals \subseteq DOMAIN portals'
        /\ TagRead = "E" =>
              /\ OthersKept(Added[1].msg.portal)
              /\ DOMAIN portals' = DOMAIN portals \ {Added[1].msg.portal}
      ]_vars

\* of two portals, one was executed and the other is still in the table
C26_Witness ==
    /\ DOMAIN portals # {}
    /\ \E i \in DOMAIN trace :
          /\ IsReadTag(trace[i], "E")
          /\ i < Len(trace)
          /\ IsCallOp(trace[i + 1], "execute")
          /\ trace[i].msg.portal \notin DOMAIN portals

====
